---- MODULE Spec2Model ----
(***************************************************************************)
(* WebDAV front end over a flat object store                               *)
(* (src/src/handlers/webdavHandler.ts).                                    *)
(*                                                                         *)
(* The state is the bucket (a map from keys to objects) together with a    *)
(* record of the request handled last and the bucket as it was before that *)
(* request.  Every handler is a pure operator from (bucket, request,       *)
(* store fault) to (bucket, response); one action per HTTP verb applies    *)
(* it.  Keys, URLs and header values are strings, so prefix matching,      *)
(* trailing slashes and the marker suffix behave as in the code.           *)
(*                                                                         *)
(* Spec runs the requests against a store whose calls all succeed,         *)
(* SpecFaulty against a store of which any call may throw.  SpecScenario   *)
(* runs one fixed sequence of requests from every bucket of a set, and     *)
(* SpecSteps takes MOVE one store call at a time, with other requests and  *)
(* a stop of the worker between the calls.  Store calls on                 *)
(* the empty key (HEAD, PUT, DELETE, COPY or MOVE of the root) are left    *)
(* out: the source does not say what the store does with them.             *)
(***************************************************************************)
EXTENDS Integers, Sequences, FiniteSets, TLC

VARIABLES store, pre, last, reliable, initial, inflight

vars == <<store, pre, last, reliable, initial, inflight>>

-----------------------------------------------------------------------------
(* Bounds and input universes *)

\* largest number of objects the bucket holds in the model
MaxObjects == 2

\* JavaScript null / undefined
Null == "<null>"

\* scheme and authority of the URLs of the requests
Origin == "http://h"

\* URL pathnames the requests name
Paths == {"/", "/a", "/a/", "/a/b.txt", "/a/_$folder$"}

\* other spellings of these pathnames: a percent escape, a doubled slash
AliasPaths == {"/a/b%2Etxt", "//a"}

\* pathnames whose key is a string prefix of a stored key, but is neither
\* stored nor the parent of one
ProbePaths == {"/a/b"}

\* pathnames that only the copy-delete-move scenario names
ScenarioPaths == {"/a/c.txt", "/a/d.txt"}

\* The requests against a store whose calls may throw are drawn from a
\* smaller universe than those against a reliable store.

\* request bodies of PUT
Bodies == IF reliable THEN {"hi", ""} ELSE {"hi"}

\* values of the Content-Type request header (Null: header absent)
ContentTypeHeaders == IF reliable THEN {Null, "", "text/plain"} ELSE {Null}

\* values of the Depth request header (Null: header absent)
DepthHeaders == IF reliable THEN {Null, "0", "1"} ELSE {Null, "0"}

\* values of the Destination request header: absent, empty, absolute URLs,
\* and a relative reference that new URL() rejects
DestinationHeaders ==
    IF reliable THEN {Null} \cup {Origin \o p : p \in Paths \ {"/", "/a/"}}
    ELSE {Null, "", "/a"} \cup {Origin \o p : p \in Paths \ {"/"}}

\* URL pathnames of MKCOL: the root, a collection with and without
\* trailing slash, and a collection inside it
MkcolPaths == IF reliable THEN {"/", "/a", "/a/", "/a/b"} ELSE {"/", "/a", "/a/"}

\* verbs that reach the default branch of the dispatcher
OtherMethods == {"LOCK", "UNLOCK"}

\* messages of the errors a store call may throw
ErrMsgs == {"object not found", "network timeout"}

\* a store fault: the at-th store call of the request throws msg (0: none)
NoFault == [at |-> 0, msg |-> Null]

Faults == {NoFault} \cup [at : 1..3, msg : ErrMsgs]

-----------------------------------------------------------------------------
(* Strings *)

StartsWith(s, p) == Len(p) <= Len(s) /\ SubSeq(s, 1, Len(p)) = p

EndsWith(s, p) == Len(p) <= Len(s) /\ SubSeq(s, Len(s) - Len(p) + 1, Len(s)) = p

\* String.prototype.includes
Includes(s, sub) ==
    \E i \in 1..(Len(s) - Len(sub) + 1) : SubSeq(s, i, i + Len(sub) - 1) = sub

\* s without its first n characters
Drop(s, n) == IF n >= Len(s) THEN "" ELSE SubSeq(s, n + 1, Len(s))

SlashPositions(s) == {i \in 1..Len(s) : SubSeq(s, i, i) = "/"}

SetMax(S) == CHOOSE m \in S : \A n \in S : n <= m

SetMin(S) == CHOOSE m \in S : \A n \in S : m <= n

\* s.split("/").pop()
LastSegment(s) ==
    IF SlashPositions(s) = {} THEN s ELSE Drop(s, SetMax(SlashPositions(s)))

\* a || b on strings
OrElse(a, b) == IF a = Null \/ a = "" THEN b ELSE a

\* a ?? b
Coalesce(a, b) == IF a = Null THEN b ELSE a


-----------------------------------------------------------------------------
(* Path Resolver (utils/webdavUtils.ts, make_resource_path) *)

\* percent escapes the resolver decodes in the model
Unescape(e) == IF e = "%2E" THEN "." ELSE e

RECURSIVE DecodePercent(_)
DecodePercent(s) ==
    IF s = "" THEN ""
    ELSE IF Head(s) = "%" /\ Len(s) >= 3 /\ Unescape(SubSeq(s, 1, 3)) # SubSeq(s, 1, 3)
         THEN Unescape(SubSeq(s, 1, 3)) \o DecodePercent(Drop(s, 3))
         ELSE Head(s) \o DecodePercent(Tail(s))

RECURSIVE CollapseSlashes(_)
CollapseSlashes(s) ==
    IF Len(s) < 2 THEN s
    ELSE IF Head(s) = "/" /\ Head(Tail(s)) = "/"
         THEN CollapseSlashes(Tail(s))
         ELSE Head(s) \o CollapseSlashes(Tail(s))

\* the store-relative key of a URL pathname: mount prefix "/" stripped,
\* percent escapes decoded, duplicate slashes collapsed, one trailing slash
\* dropped; the root is the empty key
resolve(pathname) ==
    LET collapsed == CollapseSlashes(DecodePercent(pathname))
        relative  == IF StartsWith(collapsed, "/") THEN Tail(collapsed) ELSE collapsed
    IN  IF EndsWith(relative, "/") THEN SubSeq(relative, 1, Len(relative) - 1)
        ELSE relative

\* the resolver on the pathnames of the model, computed once
ResourcePath ==
    [p \in Paths \cup AliasPaths \cup ProbePaths \cup ScenarioPaths |-> resolve(p)]

make_resource_path(pathname) == ResourcePath[pathname]

\* new URL(s): only absolute URLs parse; the pathname of a URL with an
\* empty path is "/"
URLParses(s) == StartsWith(s, Origin)

URLPathname(s) == IF Drop(s, Len(Origin)) = "" THEN "/" ELSE Drop(s, Len(Origin))

-----------------------------------------------------------------------------
(* The bucket (R2Bucket): a function from keys to objects *)

EmptyBucket == <<>>

NoMetadata == {}

CollectionMetadata == {<<"resourcetype", "collection">>}

\* customMetadata?.resourcetype
ResourceType(meta) ==
    IF \E p \in meta : p[1] = "resourcetype"
    THEN (CHOOSE p \in meta : p[1] = "resourcetype")[2]
    ELSE Null

\* an object as bucket.put stores it
R2Object(body, contentType, customMetadata) ==
    [body |-> body, size |-> Len(body), contentType |-> contentType,
     customMetadata |-> customMetadata]

Has(bucket, key) == key \in DOMAIN bucket

BucketPut(bucket, key, obj) == (key :> obj) @@ bucket

BucketDelete(bucket, key) == [k \in DOMAIN bucket \ {key} |-> bucket[k]]

\* bucket.list({prefix, delimiter: "/"}) before truncation: the keys that
\* start with the prefix, those with a further "/" folded into prefixes
ListObjects(bucket, prefix) ==
    {k \in DOMAIN bucket :
        StartsWith(k, prefix) /\ SlashPositions(Drop(k, Len(prefix))) = {}}

ListDelimitedPrefixes(bucket, prefix) ==
    {SubSeq(k, 1, Len(prefix) + SetMin(SlashPositions(Drop(k, Len(prefix))))) :
        k \in {j \in DOMAIN bucket :
                 StartsWith(j, prefix) /\ SlashPositions(Drop(j, Len(prefix))) # {}}}

\* bucket.list({prefix, delimiter: "/", maxKeys}): at most maxKeys results,
\* objects and prefixes counted together
BucketList(bucket, prefix, maxKeys) ==
    LET objs  == ListObjects(bucket, prefix)
        prefs == ListDelimitedPrefixes(bucket, prefix)
        all   == {<<"o", k>> : k \in objs} \cup {<<"p", k>> : k \in prefs}
        page  == CHOOSE P \in SUBSET all :
                    /\ Cardinality(P) <= maxKeys
                    /\ (Cardinality(all) >= maxKeys => Cardinality(P) = maxKeys)
                    /\ (Cardinality(all) < maxKeys => P = all)
    IN  [objects |-> {e[2] : e \in {x \in page : x[1] = "o"}},
         delimitedPrefixes |-> {e[2] : e \in {x \in page : x[1] = "p"}}]

-----------------------------------------------------------------------------
(* Listing Engine and Response Formatter (utils/webdavUtils.ts, utils/templates.ts) *)

MarkerName == "_$folder$"

\* the prefix under which the children of a collection key live
ChildPrefix(key) == IF key = "" THEN "" ELSE key \o "/"

\* listAll(bucket, key): the direct children of the collection key; nested
\* keys are folded into one collection entry per child collection, the
\* collection's own key and the marker objects are left out
listAll(bucket, key) ==
    LET prefix == ChildPrefix(key)
    IN  {[key |-> k, displayname |-> Null, size |-> bucket[k].size,
          contentType |-> bucket[k].contentType,
          customMetadata |-> bucket[k].customMetadata] :
            k \in {j \in ListObjects(bucket, prefix) :
                     j # key /\ LastSegment(j) # MarkerName}}
        \cup
        {[key |-> d, displayname |-> LastSegment(SubSeq(d, 1, Len(d) - 1)), size |-> 0,
          contentType |-> Null, customMetadata |-> CollectionMetadata] :
            d \in ListDelimitedPrefixes(bucket, prefix)}

\* fromR2Object: the WebDAV properties of a listed object
fromR2Object(object) ==
    [displayname |-> OrElse(object.displayname, OrElse(LastSegment(object.key), object.key)),
     getcontentlength |-> object.size,
     getcontenttype |-> Coalesce(object.contentType, ""),
     resourcetype |-> Coalesce(ResourceType(object.customMetadata), "")]

\* generateErrorHTML(title, detail)
generateErrorHTML(title, detail) == "<h1>" \o title \o "</h1><p>" \o detail \o "</p>"

\* generateHTML(title, items): the page is its title; the items travel in
\* the response's entries
generateHTML(title) == "<title>" \o title \o "</title>"

-----------------------------------------------------------------------------
(* Requests, faults and handler results *)

Request(method, path, depth, destination, contentType, body) ==
    [method |-> method, path |-> path, depth |-> depth, destination |-> destination,
     contentType |-> contentType, body |-> body]

\* request.url
Url(req) == Origin \o req.path

\* does the n-th store call of the request throw?
Fails(f, n) == f.at = n

\* a response returned by a handler; calls are the store calls it issued
Response(bucket, status, body, contentType, calls) ==
    [store |-> bucket, status |-> status, body |-> body, contentType |-> contentType,
     entries |-> {}, firstHref |-> Null, calls |-> calls, error |-> Null,
     uncaught |-> FALSE]

\* a response rendered from a caught error
ErrorResponse(bucket, status, title, msg, contentType, calls) ==
    [Response(bucket, status, generateErrorHTML(title, msg), contentType, calls)
        EXCEPT !.error = msg]

\* an exception that leaves the handler
Thrown(bucket, msg, calls) ==
    [Response(bucket, 0, Null, Null, calls) EXCEPT !.error = msg, !.uncaught = TRUE]

HtmlType == "text/html; charset=utf-8"

XmlType == "application/xml; charset=utf-8"

OctetStream == "application/octet-stream"

-----------------------------------------------------------------------------
(* The handlers.  Each takes the bucket, the request and the store fault   *)
(* and returns the bucket it leaves and the response.                      *)

handleOptions(bucket) == Response(bucket, 200, Null, Null, <<>>)

handleHead(bucket, req, f) ==
    LET resource_path == make_resource_path(req.path)
    IN  IF Fails(f, 1) THEN Thrown(bucket, f.msg, <<"head">>)
        ELSE IF ~Has(bucket, resource_path)
             THEN Response(bucket, 404, Null, Null, <<"head">>)
             ELSE Response(bucket, 200, Null,
                           Coalesce(bucket[resource_path].contentType, OctetStream),
                           <<"head">>)

\* globals.bucketName is the binding the free identifier bucketName finds at
\* line 127: Null when the build defines none
handleDirectory(bucket, resource_path, f, globals) ==
    LET parent == IF resource_path # "" THEN {[name |-> "[D] ..", href |-> "../"]} ELSE {}
        listed == {[name |-> (IF ResourceType(o.customMetadata) = "collection"
                              THEN "[D] " ELSE "[F] ")
                             \o OrElse(o.displayname, OrElse(LastSegment(o.key), o.key)),
                    href |-> "/" \o o.key] :
                      o \in {x \in listAll(bucket, resource_path) : x.key # resource_path}}
    IN  IF Fails(f, 1)
        THEN ErrorResponse(bucket, 500, "Error listing directory contents", f.msg,
                           HtmlType, <<"list">>)
        ELSE IF globals.bucketName = Null
             THEN Thrown(bucket, "bucketName is not defined", <<"list">>)
             ELSE [Response(bucket, 200,
                            generateHTML("WebDAV File Browser[" \o globals.bucketName \o "]"),
                            HtmlType, <<"list">>)
                     EXCEPT !.entries = parent \cup listed,
                            !.firstHref = IF parent # {} THEN "../" ELSE Null]

handleFile(bucket, resource_path, f) ==
    IF Fails(f, 1)
    THEN ErrorResponse(bucket, 500, "Error retrieving file", f.msg, HtmlType, <<"get">>)
    ELSE IF ~Has(bucket, resource_path)
         THEN Response(bucket, 404, "Not Found", Null, <<"get">>)
         ELSE Response(bucket, 200, bucket[resource_path].body,
                       Coalesce(bucket[resource_path].contentType, OctetStream),
                       <<"get">>)

handleGet(bucket, req, f, globals) ==
    LET resource_path == make_resource_path(req.path)
    IN  IF EndsWith(Url(req), "/")
        THEN handleDirectory(bucket, resource_path, f, globals)
        ELSE handleFile(bucket, resource_path, f)

\* a PUT that defaults the content type with ?? instead of ||
handlePut_NullishDefault(bucket, req, f) ==
    LET resource_path == make_resource_path(req.path)
        object == R2Object(req.body, Coalesce(req.contentType, OctetStream), NoMetadata)
    IN  IF Fails(f, 1)
        THEN ErrorResponse(bucket, 500, "Error uploading file", f.msg, HtmlType, <<"put">>)
        ELSE Response(BucketPut(bucket, resource_path, object), 201, "Created", Null,
                      <<"put">>)

handlePut(bucket, req, f) ==
    LET resource_path == make_resource_path(req.path)
        object == R2Object(req.body, OrElse(req.contentType, OctetStream), NoMetadata)
    IN  IF Fails(f, 1)
        THEN ErrorResponse(bucket, 500, "Error uploading file", f.msg, HtmlType, <<"put">>)
        ELSE Response(BucketPut(bucket, resource_path, object), 201, "Created", Null,
                      <<"put">>)

\* a test that takes no error message for "already deleted"
NotFoundShaped_Never(errorMessage) == FALSE

\* the error messages handleDelete takes for "already deleted"
NotFoundShaped(errorMessage) ==
    \/ Includes(errorMessage, "not found")
    \/ Includes(errorMessage, "does not exist")
    \/ Includes(errorMessage, "404")

\* a DELETE that answers 204 and removes nothing
handleDelete_KeepsObject(bucket, req, f) ==
    IF Fails(f, 1)
    THEN IF NotFoundShaped(f.msg)
         THEN [Response(bucket, 204, Null, Null, <<"delete">>) EXCEPT !.error = f.msg]
         ELSE [Response(bucket, 500, Null, Null, <<"delete">>) EXCEPT !.error = f.msg]
    ELSE Response(bucket, 204, Null, Null, <<"delete">>)

\* a DELETE that answers 404 for a key that holds no object
handleDelete_NotFoundWhenAbsent(bucket, req, f) ==
    LET resource_path == make_resource_path(req.path)
    IN  IF Fails(f, 1)
        THEN IF NotFoundShaped(f.msg)
             THEN [Response(bucket, 204, Null, Null, <<"delete">>) EXCEPT !.error = f.msg]
             ELSE [Response(bucket, 500, Null, Null, <<"delete">>) EXCEPT !.error = f.msg]
        ELSE IF ~Has(bucket, resource_path)
        THEN Response(bucket, 404, Null, Null, <<"delete">>)
        ELSE Response(BucketDelete(bucket, resource_path), 204, Null, Null, <<"delete">>)

handleDelete(bucket, req, f) ==
    LET resource_path == make_resource_path(req.path)
    IN  IF Fails(f, 1)
        THEN IF NotFoundShaped(f.msg)
             THEN [Response(bucket, 204, Null, Null, <<"delete">>) EXCEPT !.error = f.msg]
             ELSE [Response(bucket, 500, Null, Null, <<"delete">>) EXCEPT !.error = f.msg]
        ELSE Response(BucketDelete(bucket, resource_path), 204, Null, Null, <<"delete">>)

\* path.split("/").filter(Boolean)
RECURSIVE Parts(_)
Parts(s) ==
    IF s = "" THEN <<>>
    ELSE IF SlashPositions(s) = {} THEN <<s>>
    ELSE LET i == SetMin(SlashPositions(s))
         IN  (IF i = 1 THEN <<>> ELSE <<SubSeq(s, 1, i - 1)>>) \o Parts(Drop(s, i))

\* the loop of ensureParentDirectories from index i on (indices from 1)
RECURSIVE EnsureParentsFrom(_, _, _, _)
EnsureParentsFrom(bucket, parts, i, parentPath) ==
    IF i > Len(parts) - 1 THEN bucket
    ELSE LET next == parentPath \o parts[i] \o "/" \o MarkerName
         IN  EnsureParentsFrom(
                 IF Has(bucket, next) THEN bucket
                 ELSE BucketPut(bucket, next, R2Object("", Null, CollectionMetadata)),
                 parts, i + 1, next)

\* the helper that puts the markers of the parents of a path; handleMkcol
\* does not call it
ensureParentDirectories(bucket, path) ==
    IF Len(Parts(path)) <= 1 THEN bucket
    ELSE EnsureParentsFrom(bucket, Parts(path), 1, "")

\* a MKCOL that calls ensureParentDirectories before it puts its marker
handleMkcol_EnsuresParents(bucket, req, f) ==
    LET resource_path  == make_resource_path(req.path)
        normalizedPath == IF EndsWith(resource_path, "/") THEN resource_path
                          ELSE resource_path \o "/"
        markerFileKey  == normalizedPath \o MarkerName
        marker         == R2Object("", Null, CollectionMetadata)
        ensured        == ensureParentDirectories(bucket, normalizedPath)
    IN  IF resource_path = ""
        THEN Response(bucket, 405, "Method Not Allowed", Null, <<>>)
        ELSE IF Fails(f, 1)
        THEN ErrorResponse(bucket, 500, "Error creating collection", f.msg, HtmlType,
                           <<"head">>)
        ELSE IF Has(ensured, markerFileKey)
        THEN Response(ensured, 201, "Alraedy Exist", Null, <<"head">>)
        ELSE IF Fails(f, 2)
        THEN ErrorResponse(ensured, 500, "Error creating collection", f.msg, HtmlType,
                           <<"head", "put">>)
        ELSE Response(BucketPut(ensured, markerFileKey, marker), 201, "Created", Null,
                      <<"head", "put">>)

\* a MKCOL that does not turn the root away
handleMkcol_NoRootCheck(bucket, req, f) ==
    LET resource_path  == make_resource_path(req.path)
        normalizedPath == IF EndsWith(resource_path, "/") THEN resource_path
                          ELSE resource_path \o "/"
        markerFileKey  == normalizedPath \o MarkerName
        marker         == R2Object("", Null, CollectionMetadata)
    IN  IF Fails(f, 1)
        THEN ErrorResponse(bucket, 500, "Error creating collection", f.msg, HtmlType,
                           <<"head">>)
        ELSE IF Has(bucket, markerFileKey)
        THEN Response(bucket, 201, "Alraedy Exist", Null, <<"head">>)
        ELSE IF Fails(f, 2)
        THEN ErrorResponse(bucket, 500, "Error creating collection", f.msg, HtmlType,
                           <<"head", "put">>)
        ELSE Response(BucketPut(bucket, markerFileKey, marker), 201, "Created", Null,
                      <<"head", "put">>)

\* a MKCOL that puts the marker without looking for an existing one
handleMkcol_NoExistenceCheck(bucket, req, f) ==
    LET resource_path  == make_resource_path(req.path)
        normalizedPath == IF EndsWith(resource_path, "/") THEN resource_path
                          ELSE resource_path \o "/"
        markerFileKey  == normalizedPath \o MarkerName
        marker         == R2Object("", Null, CollectionMetadata)
    IN  IF resource_path = ""
        THEN Response(bucket, 405, "Method Not Allowed", Null, <<>>)
        ELSE IF Fails(f, 1)
        THEN ErrorResponse(bucket, 500, "Error creating collection", f.msg, HtmlType,
                           <<"head">>)
        ELSE IF Fails(f, 2)
        THEN ErrorResponse(bucket, 500, "Error creating collection", f.msg, HtmlType,
                           <<"head", "put">>)
        ELSE Response(BucketPut(bucket, markerFileKey, marker), 201, "Created", Null,
                      <<"head", "put">>)

handleMkcol(bucket, req, f) ==
    LET resource_path  == make_resource_path(req.path)
        normalizedPath == IF EndsWith(resource_path, "/") THEN resource_path
                          ELSE resource_path \o "/"
        markerFileKey  == normalizedPath \o MarkerName
        marker         == R2Object("", Null, CollectionMetadata)
    IN  IF resource_path = ""
        THEN Response(bucket, 405, "Method Not Allowed", Null, <<>>)
        ELSE IF Fails(f, 1)
        THEN ErrorResponse(bucket, 500, "Error creating collection", f.msg, HtmlType,
                           <<"head">>)
        ELSE IF Has(bucket, markerFileKey)
        THEN Response(bucket, 201, "Alraedy Exist", Null, <<"head">>)
        ELSE IF Fails(f, 2)
        THEN ErrorResponse(bucket, 500, "Error creating collection", f.msg, HtmlType,
                           <<"head", "put">>)
        ELSE Response(BucketPut(bucket, markerFileKey, marker), 201, "Created", Null,
                      <<"head", "put">>)

handlePropfind(bucket, req, f) ==
    LET resource_path == make_resource_path(req.path)
        depth         == OrElse(req.depth, "infinity")
        listResult    == BucketList(bucket, resource_path, 1)
        folderExists  == \/ Cardinality(listResult.delimitedPrefixes) > 0
                         \/ Cardinality(listResult.objects) > 0
        synthesized   == [displayname |-> OrElse(LastSegment(resource_path), resource_path),
                          getcontentlength |-> "0",
                          getcontenttype |-> "",
                          getetag |-> "implicit-folder-" \o resource_path,
                          resourcetype |-> "collection"]
    IN  IF Fails(f, 1)
        THEN ErrorResponse(bucket, 500, "Error in PROPFIND", f.msg, XmlType, <<"list">>)
        ELSE IF depth # "0"
        THEN [Response(bucket, 207, "multistatus", XmlType, <<"list">>)
                EXCEPT !.entries = {fromR2Object(o) : o \in listAll(bucket, resource_path)}]
        ELSE IF folderExists
        THEN [Response(bucket, 207, "multistatus", XmlType, <<"list">>)
                EXCEPT !.entries = {synthesized}]
        ELSE Response(bucket, 404, "Not Found", Null, <<"list">>)

\* a destination check that takes only the empty header for missing
destinationMissing_OnlyEmpty(destinationHeader) == destinationHeader = ""

\* !destinationHeader
destinationMissing(destinationHeader) == destinationHeader = Null \/ destinationHeader = ""

\* a copy that passes no customMetadata to put
CopyOf_NoCustomMetadata(sourceObject) ==
    R2Object(sourceObject.body, sourceObject.contentType, NoMetadata)

\* the object put at the destination: the source's body, httpMetadata and
\* customMetadata
CopyOf(sourceObject) ==
    R2Object(sourceObject.body, sourceObject.contentType, sourceObject.customMetadata)

\* a COPY that writes the destination before it looks at what get returned
handleCopy_PutsUnchecked(bucket, req, f) ==
    LET sourcePath      == make_resource_path(req.path)
        destinationPath == make_resource_path(URLPathname(req.destination))
        sourceObject(b) == IF Has(b, sourcePath) THEN b[sourcePath]
                           ELSE R2Object("", Null, NoMetadata)
        copied(b)       == BucketPut(b, destinationPath, CopyOf(sourceObject(b)))
    IN  IF destinationMissing(req.destination)
        THEN Response(bucket, 400, "Bad Request: Destination header is missing", Null, <<>>)
        ELSE IF ~URLParses(req.destination)
        THEN Thrown(bucket, "Invalid URL", <<>>)
        ELSE IF Fails(f, 1)
        THEN ErrorResponse(bucket, 500, "Error copying file", f.msg, HtmlType, <<"get">>)
        ELSE IF Fails(f, 2)
        THEN ErrorResponse(bucket, 500, "Error copying file", f.msg, HtmlType,
                           <<"get", "put">>)
        ELSE IF ~Has(bucket, sourcePath)
        THEN Response(copied(bucket), 404, "Not Found", Null, <<"get", "put">>)
        ELSE Response(copied(bucket), 201, "Created", Null, <<"get", "put">>)

handleCopy(bucket, req, f) ==
    LET sourcePath      == make_resource_path(req.path)
        destinationPath == make_resource_path(URLPathname(req.destination))
        copied(b)       == BucketPut(b, destinationPath, CopyOf(b[sourcePath]))
    IN  IF destinationMissing(req.destination)
        THEN Response(bucket, 400, "Bad Request: Destination header is missing", Null, <<>>)
        ELSE IF ~URLParses(req.destination)
        THEN Thrown(bucket, "Invalid URL", <<>>)
        ELSE IF Fails(f, 1)
        THEN ErrorResponse(bucket, 500, "Error copying file", f.msg, HtmlType, <<"get">>)
        ELSE IF ~Has(bucket, sourcePath)
        THEN Response(bucket, 404, "Not Found", Null, <<"get">>)
        ELSE IF Fails(f, 2)
        THEN ErrorResponse(bucket, 500, "Error copying file", f.msg, HtmlType,
                           <<"get", "put">>)
        ELSE Response(copied(bucket), 201, "Created", Null, <<"get", "put">>)

\* a catch block that reports success
moveFailed_ReportsSuccess(bucket, msg, calls) ==
    [Response(bucket, 204, "No Content", Null, calls) EXCEPT !.error = msg]

\* the catch block of handleMove
moveFailed(bucket, msg, calls) ==
    ErrorResponse(bucket, 500, "Error moving file", msg, HtmlType, calls)

handleMove(bucket, req, f) ==
    LET sourcePath      == make_resource_path(req.path)
        destinationPath == make_resource_path(URLPathname(req.destination))
        copied(b)       == BucketPut(b, destinationPath, CopyOf(b[sourcePath]))
    IN  IF destinationMissing(req.destination)
        THEN Response(bucket, 400, "Bad Request: Destination header is missing", Null, <<>>)
        ELSE IF ~URLParses(req.destination)
        THEN Thrown(bucket, "Invalid URL", <<>>)
        ELSE IF Fails(f, 1)
        THEN moveFailed(bucket, f.msg, <<"get">>)
        ELSE IF ~Has(bucket, sourcePath)
        THEN Response(bucket, 404, "Not Found", Null, <<"get">>)
        ELSE IF Fails(f, 2)
        THEN moveFailed(bucket, f.msg, <<"get", "put">>)
        ELSE IF Fails(f, 3)
        THEN moveFailed(copied(bucket), f.msg, <<"get", "put", "delete">>)
        ELSE Response(BucketDelete(copied(bucket), sourcePath), 204, "No Content", Null,
                      <<"get", "put", "delete">>)

\* the dispatcher: an exception that leaves a handler becomes a 500
handleWebDAV(bucket, req, f, globals) ==
    LET r == CASE req.method = "OPTIONS"  -> handleOptions(bucket)
               [] req.method = "HEAD"     -> handleHead(bucket, req, f)
               [] req.method = "GET"      -> handleGet(bucket, req, f, globals)
               [] req.method = "PUT"      -> handlePut(bucket, req, f)
               [] req.method = "DELETE"   -> handleDelete(bucket, req, f)
               [] req.method = "MKCOL"    -> handleMkcol(bucket, req, f)
               [] req.method = "PROPFIND" -> handlePropfind(bucket, req, f)
               [] req.method = "COPY"     -> handleCopy(bucket, req, f)
               [] req.method = "MOVE"     -> handleMove(bucket, req, f)
               [] OTHER -> Response(bucket, 405, "Method Not Allowed", Null, <<>>)
    IN  IF r.uncaught
        THEN [r EXCEPT !.status = 500,
                       !.body = generateErrorHTML("Internal Server Error", r.error),
                       !.contentType = HtmlType]
        ELSE r

-----------------------------------------------------------------------------------------------------------------------------------------------------
(* The state machine: one request at a time *)

\* bindings of the free identifier bucketName a build can give
Globals == [bucketName : {Null, "bucket"}]

NoGlobals == [bucketName |-> Null]

\* the faults of a request that makes up to n store calls: none when the
\* store is reliable
FaultsUpTo(n) ==
    IF reliable THEN {NoFault}
    ELSE {f \in Faults : f.at <= n}

\* the faults of a DELETE, whose handler reads the error message
DeleteFaults == IF reliable THEN {NoFault} ELSE {f \in Faults : f.at <= 1}

\* URL pathnames without trailing slash: they name a key other than the root
FilePaths == {p \in Paths : ~EndsWith(p, "/")}

\* the verbs for which a request records that it repeats the one before it
RepeatedVerbs == {"DELETE", "MKCOL"}

NoRequest == Request(Null, "/", Null, Null, Null, "")

\* no MOVE is between two of its store calls
Idle == [phase |-> "idle", req |-> NoRequest, sourceObject |-> <<>>]

\* the record of the last request before any request was handled
NoResponse ==
    [req |-> NoRequest, status |-> 0, body |-> Null, contentType |-> Null,
     entries |-> {}, firstHref |-> Null, calls |-> <<>>, error |-> Null,
     uncaught |-> FALSE, again |-> FALSE, prevStatus |-> 0]

InitRequests ==
    /\ store = EmptyBucket
    /\ pre = EmptyBucket
    /\ initial = EmptyBucket
    /\ inflight = Idle
    /\ last = NoResponse

\* an empty bucket behind a store whose calls all succeed
Init == InitRequests /\ reliable = TRUE

\* an empty bucket behind a store whose calls may throw
InitFaulty == InitRequests /\ reliable = FALSE

\* is req the same verb on the same key as the request before it?
Again(req) ==
    /\ req.method \in RepeatedVerbs
    /\ last.req.method = req.method
    /\ make_resource_path(last.req.path) = make_resource_path(req.path)

\* handle one request: the bucket becomes what the handler leaves, and the
\* request, its response and the bucket before it are remembered
Handle(req, f, globals) ==
    \E r \in {handleWebDAV(store, req, f, globals)} :
        /\ Cardinality(DOMAIN r.store) <= MaxObjects
        /\ store' = r.store
        /\ pre' = store
        /\ last' = [req |-> req, status |-> r.status, body |-> r.body,
                    contentType |-> r.contentType, entries |-> r.entries,
                    firstHref |-> r.firstHref, calls |-> r.calls, error |-> r.error,
                    uncaught |-> r.uncaught,
                    again |-> Again(req),
                    prevStatus |-> IF Again(req) THEN last.status ELSE 0]
        /\ UNCHANGED <<reliable, initial, inflight>>

OnOptions ==
    \E p \in {"/"}, f \in FaultsUpTo(0) :
        Handle(Request("OPTIONS", p, Null, Null, Null, ""), f, NoGlobals)

OnHead ==
    \E p \in FilePaths, f \in FaultsUpTo(1) :
        Handle(Request("HEAD", p, Null, Null, Null, ""), f, NoGlobals)

OnGet ==
    \E p \in Paths \cup AliasPaths, f \in FaultsUpTo(1), g \in Globals :
        /\ ~EndsWith(p, "/") => g = NoGlobals
        /\ Handle(Request("GET", p, Null, Null, Null, ""), f, g)

OnPut ==
    \E p \in FilePaths \cup AliasPaths, c \in ContentTypeHeaders, b \in Bodies,
       f \in FaultsUpTo(1) :
        Handle(Request("PUT", p, Null, Null, c, b), f, NoGlobals)

OnDelete ==
    \E p \in FilePaths, f \in DeleteFaults :
        Handle(Request("DELETE", p, Null, Null, Null, ""), f, NoGlobals)

OnMkcol ==
    \E p \in MkcolPaths, f \in FaultsUpTo(2) :
        Handle(Request("MKCOL", p, Null, Null, Null, ""), f, NoGlobals)

OnPropfind ==
    \E p \in (Paths \ {"/a/_$folder$"}) \cup ProbePaths, d \in DepthHeaders,
       f \in FaultsUpTo(1) :
        Handle(Request("PROPFIND", p, d, Null, Null, ""), f, NoGlobals)

OnCopy ==
    \E p \in FilePaths, d \in DestinationHeaders, f \in FaultsUpTo(2) :
        /\ Handle(Request("COPY", p, Null, d, Null, ""), f, NoGlobals)

OnMove ==
    \E p \in FilePaths, d \in DestinationHeaders, f \in FaultsUpTo(3) :
        /\ Handle(Request("MOVE", p, Null, d, Null, ""), f, NoGlobals)

OnUnsupported ==
    \E m \in OtherMethods, p \in {"/"}, f \in FaultsUpTo(0) :
        Handle(Request(m, p, Null, Null, Null, ""), f, NoGlobals)

Next ==
    \/ OnOptions
    \/ OnHead
    \/ OnGet
    \/ OnPut
    \/ OnDelete
    \/ OnMkcol
    \/ OnPropfind
    \/ OnCopy
    \/ OnMove
    \/ OnUnsupported

\* requests against a reliable store
Spec == Init /\ [][Next]_vars

\* requests against a store whose calls may throw
SpecFaulty == InitFaulty /\ [][Next]_vars

-----------------------------------------------------------------------------
(* The scenario COPY b.txt -> c.txt, DELETE b.txt, MOVE c.txt -> d.txt, one  *)
(* request after the other, from every bucket that holds an object at        *)
(* a/b.txt                                                                   *)

\* the objects a/b.txt may hold when the scenario starts
ScenarioObjects ==
    {R2Object(b, c, m) : b \in {"hi", "", "hello"}, c \in {Null, "text/plain"},
                         m \in {NoMetadata, CollectionMetadata}}

\* what else the bucket may hold when the scenario starts
ScenarioOthers ==
    {EmptyBucket} \cup
    {k :> R2Object("old", Null, NoMetadata) : k \in {"a/c.txt", "a/d.txt", "a"}} \cup
    {"a/_$folder$" :> R2Object("", Null, CollectionMetadata)}

ScenarioStores ==
    {b \in {("a/b.txt" :> o) @@ others : o \in ScenarioObjects, others \in ScenarioOthers} :
        Cardinality(DOMAIN b) <= MaxObjects}

InitScenario ==
    /\ store \in ScenarioStores
    /\ pre = store
    /\ initial = store
    /\ inflight = Idle
    /\ last = NoResponse
    /\ reliable = TRUE

ScenarioCopy ==
    \E f \in FaultsUpTo(2) :
        /\ last.req = NoRequest
        /\ Handle(Request("COPY", "/a/b.txt", Null, Origin \o "/a/c.txt", Null, ""),
                  f, NoGlobals)

ScenarioDelete ==
    \E f \in DeleteFaults :
        /\ last.req.method = "COPY"
        /\ Handle(Request("DELETE", "/a/b.txt", Null, Null, Null, ""), f, NoGlobals)

ScenarioMove ==
    \E f \in FaultsUpTo(3) :
        /\ last.req.method = "DELETE"
        /\ Handle(Request("MOVE", "/a/c.txt", Null, Origin \o "/a/d.txt", Null, ""),
                  f, NoGlobals)

NextScenario ==
    \/ ScenarioCopy
    \/ ScenarioDelete
    \/ ScenarioMove

SpecScenario == InitScenario /\ [][NextScenario]_vars

-----------------------------------------------------------------------------
(* A MOVE taken one store call at a time.  Each await of handleMove is a     *)
(* point at which the worker may handle another request or be stopped; the   *)
(* other requests are handled in one step each.                              *)

\* const sourceObject = await bucket.get(sourcePath): the object in a
\* sequence of one, the empty sequence for null
moveGet(bucket, req) ==
    IF Has(bucket, make_resource_path(req.path))
    THEN <<bucket[make_resource_path(req.path)]>> ELSE <<>>

\* a put that takes the source away in the same store call
movePut_RemovesSource(bucket, req, sourceObject) ==
    BucketDelete(BucketPut(bucket, make_resource_path(URLPathname(req.destination)),
                           CopyOf(sourceObject[1])),
                 make_resource_path(req.path))

\* await bucket.put(destinationPath, sourceObject.body, {...})
movePut(bucket, req, sourceObject) ==
    BucketPut(bucket, make_resource_path(URLPathname(req.destination)),
              CopyOf(sourceObject[1]))

\* await bucket.delete(sourcePath)
moveDelete(bucket, req) == BucketDelete(bucket, make_resource_path(req.path))

\* the MOVE requests taken call by call, and the requests of other clients
StepMoves ==
    {Request("MOVE", p, Null, Origin \o d, Null, "") :
        p \in {"/a/b.txt"}, d \in {"/a/c.txt"}}

StepBodies == {"hi", "hello"}

\* the record of a request that has made these store calls and has not
\* been answered
Pending(req, calls) == [NoResponse EXCEPT !.req = req, !.calls = calls]

\* the get of a MOVE: a source that holds no object is answered 404 at once
MoveGetStep ==
    \E req \in StepMoves, f \in FaultsUpTo(1) :
        /\ inflight = Idle
        /\ IF moveGet(store, req) = <<>>
           THEN Handle(req, f, NoGlobals)
           ELSE /\ inflight' = [phase |-> "got", req |-> req,
                                sourceObject |-> moveGet(store, req)]
                /\ last' = Pending(req, <<"get">>)
                /\ pre' = store
                /\ UNCHANGED <<store, reliable, initial>>

MovePutStep ==
    /\ inflight.phase = "got"
    /\ Cardinality(DOMAIN movePut(store, inflight.req, inflight.sourceObject))
          <= MaxObjects
    /\ store' = movePut(store, inflight.req, inflight.sourceObject)
    /\ pre' = store
    /\ inflight' = [inflight EXCEPT !.phase = "put"]
    /\ last' = Pending(inflight.req, <<"get", "put">>)
    /\ UNCHANGED <<reliable, initial>>

\* the delete of a MOVE, and its 204
MoveDeleteStep ==
    /\ inflight.phase = "put"
    /\ store' = moveDelete(store, inflight.req)
    /\ pre' = store
    /\ inflight' = Idle
    /\ last' = [Pending(inflight.req, <<"get", "put", "delete">>)
                   EXCEPT !.status = 204, !.body = "No Content"]
    /\ UNCHANGED <<reliable, initial>>

\* the worker stops between two store calls: the MOVE is never answered
Crash ==
    /\ inflight.phase \in {"got", "put"}
    /\ inflight' = Idle
    /\ pre' = store
    /\ last' = Pending(inflight.req,
                       IF inflight.phase = "got" THEN <<"get">> ELSE <<"get", "put">>)
    /\ UNCHANGED <<store, reliable, initial>>

StepPut ==
    \E p \in {"/a/b.txt"}, b \in StepBodies, f \in FaultsUpTo(1) :
        Handle(Request("PUT", p, Null, Null, Null, b), f, NoGlobals)

StepGet ==
    \E p \in {"/a/b.txt", "/a/c.txt"}, f \in FaultsUpTo(1) :
        Handle(Request("GET", p, Null, Null, Null, ""), f, NoGlobals)

StepDelete ==
    \E p \in {"/a", "/a/b.txt", "/a/c.txt"}, f \in DeleteFaults :
        Handle(Request("DELETE", p, Null, Null, Null, ""), f, NoGlobals)

StepMkcol ==
    \E p \in {"/a", "/a/b"}, f \in FaultsUpTo(2) :
        Handle(Request("MKCOL", p, Null, Null, Null, ""), f, NoGlobals)

NextSteps ==
    \/ MoveGetStep
    \/ MovePutStep
    \/ MoveDeleteStep
    \/ Crash
    \/ StepPut
    \/ StepGet
    \/ StepDelete
    \/ StepMkcol

SpecSteps == Init /\ [][NextSteps]_vars

-----------------------------------------------------------------------------
(* Properties *)

\* the key the last request addressed
LastKey == make_resource_path(last.req.path)

\* the key the Destination header of the last request named
LastDestinationKey == make_resource_path(URLPathname(last.req.destination))

\* the marker key MKCOL uses for a collection key
MarkerKeyOf(key) == key \o "/" \o MarkerName

\* GET of a key as a file, the store answering
GetFile(bucket, key) ==
    LET r == handleFile(bucket, key, NoFault)
    IN  [status |-> r.status, body |-> r.body, contentType |-> r.contentType]

\* PROPFIND with Depth: 0 of a URL pathname, the store answering
PropfindDepth0(bucket, path) ==
    handlePropfind(bucket, Request("PROPFIND", path, "0", Null, Null, ""), NoFault)

\* the keys of b other than those in K hold what they hold in c
SameExcept(b, c, K) ==
    /\ DOMAIN b \ K = DOMAIN c \ K
    /\ \A k \in DOMAIN b \ K : b[k] = c[k]

\* C1: a MOVE(A->B) that returns 204 is followed by GET(A) returning 404
\* and GET(B) returning 200 with the content A held before the MOVE, for
\* every source key A and destination key B.
C1_MoveThenGet ==
    (last.req.method = "MOVE" /\ last.status = 204) =>
        /\ GetFile(store, LastKey).status = 404
        /\ GetFile(store, LastDestinationKey).status = 200
        /\ GetFile(store, LastDestinationKey).body = pre[LastKey].body

\* C1 for a destination key other than the source key
C1_MoveThenGet_DistinctKeys ==
    (last.req.method = "MOVE" /\ last.status = 204 /\ LastKey # LastDestinationKey) =>
        /\ GetFile(store, LastKey).status = 404
        /\ GetFile(store, LastDestinationKey).status = 200
        /\ GetFile(store, LastDestinationKey).body = pre[LastKey].body

\* C2: a COPY(A->B) that returns 201 leaves at B an object with the body,
\* content type and custom metadata of A, and leaves A as it was, so that
\* GET(A) answers the same before and after.
C2_CopyPreserves ==
    (last.req.method = "COPY" /\ last.status = 201) =>
        /\ Has(pre, LastKey)
        /\ Has(store, LastDestinationKey)
        /\ store[LastDestinationKey].body = pre[LastKey].body
        /\ store[LastDestinationKey].contentType = pre[LastKey].contentType
        /\ store[LastDestinationKey].customMetadata = pre[LastKey].customMetadata
        /\ Has(store, LastKey)
        /\ store[LastKey].body = pre[LastKey].body
        /\ store[LastKey].contentType = pre[LastKey].contentType
        /\ store[LastKey].customMetadata = pre[LastKey].customMetadata
        /\ GetFile(store, LastKey) = GetFile(pre, LastKey)

\* a COPY to another key of an object that carries custom metadata returned 201
C2_Witness ==
    /\ last.req.method = "COPY"
    /\ last.status = 201
    /\ LastKey # LastDestinationKey
    /\ pre[LastKey].customMetadata = CollectionMetadata

\* C3: when the delete of the source throws after MOVE has written the
\* destination, MOVE returns 500 and rolls nothing back: the destination
\* holds the copy and the source still holds the original.
C3_MovePartialFailure ==
    (/\ last.req.method = "MOVE"
     /\ last.calls = <<"get", "put", "delete">>
     /\ last.error # Null) =>
        /\ last.status = 500
        /\ Has(store, LastDestinationKey)
        /\ store[LastDestinationKey] = CopyOf(pre[LastKey])
        /\ Has(store, LastKey)
        /\ store[LastKey] = pre[LastKey]
        /\ SameExcept(store, pre, {LastDestinationKey})

\* the delete of a MOVE to another key threw
C3_Witness ==
    /\ last.req.method = "MOVE"
    /\ last.calls = <<"get", "put", "delete">>
    /\ last.error # Null
    /\ LastKey # LastDestinationKey
    /\ Has(store, LastKey)
    /\ Has(store, LastDestinationKey)

\* C4: DELETE is idempotent: two DELETEs of a key in succession both
\* return 204, and the second leaves the store as the first left it.
C4_DeleteIdempotent ==
    /\ (last.req.method = "DELETE") =>
            (last.status = 204 /\ ~Has(store, LastKey))
    /\ (last.req.method = "DELETE" /\ last.again) =>
            (last.prevStatus = 204 /\ last.status = 204 /\ store = pre)

\* a second DELETE of the same key was answered, other objects being stored
C4_Witness ==
    /\ last.req.method = "DELETE"
    /\ last.again
    /\ last.status = 204
    /\ store # EmptyBucket

\* C5: MKCOL is idempotent: two MKCOLs of a non-root key in succession,
\* with or without trailing slash, both return 201; the second issues no
\* put and leaves the store, with the one marker of the collection, as the
\* first left it.
C5_MkcolIdempotent ==
    (last.req.method = "MKCOL" /\ last.again /\ LastKey # "") =>
        /\ last.prevStatus = 201
        /\ last.status = 201
        /\ last.calls = <<"head">>
        /\ store = pre
        /\ Has(store, MarkerKeyOf(LastKey))

\* a second MKCOL of the same collection, this one with a trailing slash
C5_Witness ==
    /\ last.req.method = "MKCOL"
    /\ last.again
    /\ last.req.path = "/a/"
    /\ last.status = 201
    /\ last.prevStatus = 201

\* C6: after a MKCOL on a non-root key k returns 201, a zero-byte marker
\* object with custom metadata resourcetype = "collection" exists under k,
\* and PROPFIND with Depth: 0 on k returns 207 with exactly one entry,
\* whose resourcetype is collection.
C6_MkcolMakesExplicitCollection ==
    (last.req.method = "MKCOL" /\ last.status = 201) =>
        /\ Has(store, MarkerKeyOf(LastKey))
        /\ store[MarkerKeyOf(LastKey)].size = 0
        /\ ResourceType(store[MarkerKeyOf(LastKey)].customMetadata) = "collection"
        /\ PropfindDepth0(store, last.req.path).status = 207
        /\ Cardinality(PropfindDepth0(store, last.req.path).entries) = 1
        /\ \A e \in PropfindDepth0(store, last.req.path).entries :
              e.resourcetype = "collection"

\* the PROPFIND part of C6 alone
C6_PropfindAfterMkcol ==
    (last.req.method = "MKCOL" /\ last.status = 201) =>
        /\ Has(store, MarkerKeyOf(LastKey))
        /\ PropfindDepth0(store, last.req.path).status = 207
        /\ Cardinality(PropfindDepth0(store, last.req.path).entries) = 1
        /\ \A e \in PropfindDepth0(store, last.req.path).entries :
              e.resourcetype = "collection"

\* C6 for a MKCOL that found the marker key vacant
C6_MarkerWhenCreated ==
    (last.req.method = "MKCOL" /\ last.status = 201 /\ ~Has(pre, MarkerKeyOf(LastKey))) =>
        /\ Has(store, MarkerKeyOf(LastKey))
        /\ store[MarkerKeyOf(LastKey)].size = 0
        /\ ResourceType(store[MarkerKeyOf(LastKey)].customMetadata) = "collection"

\* does the bucket hold neither the marker of the key nor an object under it?
NoCollectionAt(bucket, key) ==
    /\ ~Has(bucket, MarkerKeyOf(key))
    /\ \A k \in DOMAIN bucket : ~StartsWith(k, ChildPrefix(key))

\* C7: PROPFIND with Depth: 0 on a key with no marker and no object under
\* it returns 404; after one PUT of a child under the key the same PROPFIND
\* returns 207 with a single synthesized collection entry.
C7_PropfindDepth0 ==
    /\ (/\ last.req.method = "PROPFIND"
        /\ last.req.depth = "0"
        /\ NoCollectionAt(pre, LastKey)) => last.status = 404
    /\ (last.req.method = "PUT" /\ last.status = 201) =>
          \A p \in Paths \cup ProbePaths :
              (/\ StartsWith(LastKey, ChildPrefix(make_resource_path(p)))
               /\ NoCollectionAt(pre, make_resource_path(p))) =>
                  /\ PropfindDepth0(store, p).status = 207
                  /\ Cardinality(PropfindDepth0(store, p).entries) = 1
                  /\ \A e \in PropfindDepth0(store, p).entries :
                        e.resourcetype = "collection"

\* the second half of C7 alone
C7_AfterChildPut ==
    (last.req.method = "PUT" /\ last.status = 201) =>
          \A p \in Paths \cup ProbePaths :
              (/\ StartsWith(LastKey, ChildPrefix(make_resource_path(p)))
               /\ NoCollectionAt(pre, make_resource_path(p))) =>
                  /\ PropfindDepth0(store, p).status = 207
                  /\ Cardinality(PropfindDepth0(store, p).entries) = 1
                  /\ \A e \in PropfindDepth0(store, p).entries :
                        e.resourcetype = "collection"

\* the sibling case of C7: the key of the request holds no object either
C7_PropfindDepth0_NoObject ==
    (/\ last.req.method = "PROPFIND"
     /\ last.req.depth = "0"
     /\ ~Has(pre, LastKey)
     /\ NoCollectionAt(pre, LastKey)) => last.status = 404

\* C8 for a build that binds bucketName
C8_DirectoryPage_Bound ==
    (/\ last.req.method = "GET"
     /\ EndsWith(Url(last.req), "/")
     /\ last.error # "bucketName is not defined") =>
        IF last.error # Null
        THEN last.status = 500
        ELSE /\ last.status = 200
             /\ \A o \in listAll(store, LastKey) :
                    o.key # LastKey => \E e \in last.entries : e.href = "/" \o o.key
             /\ (last.firstHref = "../") <=> (LastKey # "")
             /\ (/\ LastKey = "a"
                 /\ Has(store, "a/b.txt")
                 /\ store["a/b.txt"].customMetadata = NoMetadata) =>
                    [name |-> "[F] b.txt", href |-> "/a/b.txt"] \in last.entries

\* the items of the page of a collection key: its listed children, and the
\* parent link unless the key is the root
PageItems(bucket, key) ==
    {[name |-> (IF ResourceType(o.customMetadata) = "collection" THEN "[D] " ELSE "[F] ")
               \o OrElse(o.displayname, OrElse(LastSegment(o.key), o.key)),
      href |-> "/" \o o.key] : o \in {x \in listAll(bucket, key) : x.key # key}}
    \cup (IF key # "" THEN {[name |-> "[D] ..", href |-> "../"]} ELSE {})

\* C8: a GET whose URL ends in "/" returns 200 with a page of the children
\* the listing returns, the parent link first exactly when the key is not
\* the root; a listing error returns 500 instead.
C8_DirectoryPage ==
    (last.req.method = "GET" /\ EndsWith(Url(last.req), "/")) =>
        IF last.error # Null /\ ~last.uncaught
        THEN last.status = 500
        ELSE /\ last.status = 200
             /\ last.entries = PageItems(store, LastKey)
             /\ (last.firstHref = "../") <=> (LastKey # "")

\* what GET answers for a key after a PUT of body with the Content-Type
\* header contentType, as the claim has it
C9_Expected(body, contentType) ==
    [status |-> 200, body |-> body,
     contentType |-> IF contentType = Null THEN OctetStream ELSE contentType]

\* C9 as stated: a PUT that returns 201 stores one object at the key, and a
\* following GET returns 200 with the body and the Content-Type of the PUT,
\* or application/octet-stream when the PUT carried no Content-Type header.
C9_PutGetRoundTrip_AsStated ==
    (last.req.method = "PUT" /\ last.status = 201) =>
        /\ Has(store, LastKey)
        /\ SameExcept(store, pre, {LastKey})
        /\ GetFile(store, LastKey) = C9_Expected(last.req.body, last.req.contentType)

\* C9: a PUT that returns 201 stores one object at the key, replacing any
\* previous one, and a following GET returns 200 with the body and the
\* Content-Type of the PUT, or application/octet-stream when the PUT
\* carried no Content-Type header or an empty one.
C9_PutGetRoundTrip ==
    (last.req.method = "PUT" /\ last.status = 201) =>
        /\ Has(store, LastKey)
        /\ SameExcept(store, pre, {LastKey})
        /\ GetFile(store, LastKey) =
              C9_Expected(last.req.body,
                          IF last.req.contentType = "" THEN Null ELSE last.req.contentType)

\* a PUT with a Content-Type header replaced an object of another body
C9_Witness ==
    /\ last.req.method = "PUT"
    /\ last.status = 201
    /\ last.req.contentType = "text/plain"
    /\ Has(pre, LastKey)
    /\ pre[LastKey].body # last.req.body

\* C10: a COPY or MOVE without Destination header returns 400 and issues no
\* store call, so the store is unchanged.
C10_MissingDestination ==
    (last.req.method \in {"COPY", "MOVE"} /\ last.req.destination = Null) =>
        /\ last.status = 400
        /\ last.calls = <<>>
        /\ store = pre

\* a COPY of a stored object without Destination header was answered 400
C10_Witness ==
    /\ last.req.method = "COPY"
    /\ last.req.destination = Null
    /\ Has(store, LastKey)
    /\ last.status = 400

\* the last request carried a Destination header that new URL() rejects
InvalidDestination ==
    /\ last.req.method \in {"COPY", "MOVE"}
    /\ ~destinationMissing(last.req.destination)
    /\ ~URLParses(last.req.destination)

\* C11: a COPY or MOVE whose Destination header is present but does not
\* parse as an absolute URL returns 400 and leaves the store unchanged.
C11_InvalidDestination ==
    InvalidDestination => (last.status = 400 /\ store = pre)

\* what the code does for C11: the exception of new URL() leaves the
\* handler, the dispatcher answers 500, and no store call is made
C11_InvalidDestination_Is500 ==
    InvalidDestination =>
        /\ last.status = 500
        /\ last.uncaught
        /\ last.calls = <<>>
        /\ store = pre

\* the last request was a COPY or MOVE with a Destination that parses, of a
\* key that held no object, and the store answered the get
SourceHoldsNoObject ==
    /\ last.req.method \in {"COPY", "MOVE"}
    /\ ~destinationMissing(last.req.destination)
    /\ URLParses(last.req.destination)
    /\ last.error = Null
    /\ ~Has(pre, LastKey)

\* C12: a COPY or MOVE of a key that holds no object (a missing key, or
\* one that is only a collection) returns 404 after the one get: no put and
\* no delete is issued, and the store, an object at the destination
\* included, is unchanged.
C12_SourceNotFound ==
    SourceHoldsNoObject =>
        /\ last.status = 404
        /\ last.calls = <<"get">>
        /\ store = pre
        /\ Has(pre, LastDestinationKey) =>
              (Has(store, LastDestinationKey)
               /\ store[LastDestinationKey] = pre[LastDestinationKey])

\* a COPY of a collection key, the destination holding an object under it
C12_Witness ==
    /\ SourceHoldsNoObject
    /\ last.req.method = "COPY"
    /\ ~NoCollectionAt(pre, LastKey)
    /\ Has(store, LastDestinationKey)
    /\ last.status = 404

\* the same of a MOVE whose source key is missing altogether
C12_Witness_Move ==
    /\ SourceHoldsNoObject
    /\ last.req.method = "MOVE"
    /\ NoCollectionAt(pre, LastKey)
    /\ Has(store, LastDestinationKey)
    /\ last.status = 404

\* the verbs the dispatcher has a case for
DispatchedMethods ==
    {"OPTIONS", "HEAD", "GET", "PUT", "DELETE", "MKCOL", "PROPFIND", "COPY", "MOVE"}

\* the last request had a verb the dispatcher has no case for
UnsupportedVerb == last.req.method \notin DispatchedMethods \cup {Null}

\* the last request was a MKCOL of the root
MkcolOfRoot == last.req.method = "MKCOL" /\ LastKey = ""

\* C13: a request with a verb other than OPTIONS, PROPFIND, MKCOL, GET,
\* HEAD, PUT, COPY, MOVE and DELETE, and a MKCOL of the root, returns 405
\* without a store call, so the store is unchanged.
C13_MethodNotAllowed ==
    (UnsupportedVerb \/ MkcolOfRoot) =>
        /\ last.status = 405
        /\ last.calls = <<>>
        /\ last.error = Null
        /\ store = pre

\* a MKCOL of the root was turned away, the bucket holding objects
C13_Witness ==
    /\ MkcolOfRoot
    /\ last.status = 405
    /\ store # EmptyBucket

\* a LOCK was turned away, the bucket holding objects
C13_Witness_Lock ==
    /\ last.req.method = "LOCK"
    /\ last.status = 405
    /\ store # EmptyBucket

\* a store call of the last request threw
StoreCallFailed == last.error \in ErrMsgs

\* a store error whose message the claim calls not-found-shaped
C14_NotFoundMessage ==
    \/ Includes(last.error, "not found")
    \/ Includes(last.error, "does not exist")
    \/ Includes(last.error, "404")

\* C14: whatever the verb, a store call that throws while the request is
\* handled yields a 500 response, never an exception that leaves the
\* dispatcher and never a success status; except that a DELETE whose store
\* error has a not-found-shaped message yields 204.
C14_StoreErrors ==
    StoreCallFailed =>
        /\ last.calls # <<>>
        /\ IF last.req.method = "DELETE" /\ C14_NotFoundMessage
           THEN last.status = 204
           ELSE last.status = 500

\* the store calls that fail in the runs: every call of every verb that
\* makes one
C14_FailedCalls ==
    {<<"HEAD", <<"head">>>>, <<"GET", <<"get">>>>, <<"GET", <<"list">>>>,
     <<"PUT", <<"put">>>>, <<"DELETE", <<"delete">>>>,
     <<"MKCOL", <<"head">>>>, <<"MKCOL", <<"head", "put">>>>,
     <<"PROPFIND", <<"list">>>>,
     <<"COPY", <<"get">>>>, <<"COPY", <<"get", "put">>>>,
     <<"MOVE", <<"get">>>>, <<"MOVE", <<"get", "put">>>>,
     <<"MOVE", <<"get", "put", "delete">>>>}

\* a store error is never seen outside these calls
C14_OnlyTheseCalls ==
    StoreCallFailed => <<last.req.method, last.calls>> \in C14_FailedCalls

\* the delete of a stored object threw a not-found-shaped error: DELETE
\* answered 204 and the object is still there
C14_Witness ==
    /\ last.req.method = "DELETE"
    /\ StoreCallFailed
    /\ C14_NotFoundMessage
    /\ last.status = 204
    /\ Has(store, LastKey)

\* the head of a HEAD threw a not-found-shaped error, which left the
\* handler and was answered 500 by the dispatcher
C14_Witness_Head ==
    /\ last.req.method = "HEAD"
    /\ StoreCallFailed
    /\ C14_NotFoundMessage
    /\ last.uncaught
    /\ last.status = 500

\* the three requests of the scenario have been answered
ScenarioDone == initial # EmptyBucket /\ last.req.method = "MOVE"

\* C15: from a bucket that holds an object at a/b.txt, COPY /a/b.txt to
\* /a/c.txt, DELETE /a/b.txt, MOVE /a/c.txt to /a/d.txt, one after the
\* other, end with a/d.txt the only one of the three keys that holds an
\* object, which is the object a/b.txt held at first; GET of /a/b.txt and
\* of /a/c.txt return 404.
C15_CopyDeleteMove ==
    ScenarioDone =>
        /\ last.status = 204
        /\ Has(store, "a/d.txt")
        /\ ~Has(store, "a/b.txt")
        /\ ~Has(store, "a/c.txt")
        /\ store["a/d.txt"] = initial["a/b.txt"]
        /\ GetFile(store, "a/d.txt") = GetFile(initial, "a/b.txt")
        /\ GetFile(store, "a/b.txt").status = 404
        /\ GetFile(store, "a/c.txt").status = 404
        /\ SameExcept(store, initial, {"a/b.txt", "a/c.txt", "a/d.txt"})

\* the scenario ran to its end from a bucket that held another object at
\* a/c.txt
C15_Witness ==
    /\ ScenarioDone
    /\ last.status = 204
    /\ Has(initial, "a/c.txt")
    /\ initial["a/b.txt"].customMetadata = CollectionMetadata
    /\ Has(store, "a/d.txt")

\* the MOVE in flight has made its put, and nothing has happened since
JustPut ==
    /\ inflight.phase = "put"
    /\ last = Pending(inflight.req, <<"get", "put">>)

\* C16: the store calls of MOVE are separate steps: the put writes the copy
\* at the destination and leaves the source, which only the delete to come
\* takes away; and a MKCOL that creates a collection writes the marker of
\* that collection alone, so that a child marker may stand without the
\* marker of its parent.
C16_MoveNotAtomic ==
    /\ JustPut =>
          /\ Has(store, make_resource_path(URLPathname(inflight.req.destination)))
          /\ store[make_resource_path(URLPathname(inflight.req.destination))]
                = CopyOf(inflight.sourceObject[1])
          /\ Has(pre, make_resource_path(inflight.req.path)) =>
                /\ Has(store, make_resource_path(inflight.req.path))
                /\ store[make_resource_path(inflight.req.path)]
                      = pre[make_resource_path(inflight.req.path)]
    /\ (last.req.method = "MKCOL" /\ last.calls = <<"head", "put">>) =>
          /\ last.status = 201
          /\ DOMAIN store = DOMAIN pre \cup {MarkerKeyOf(LastKey)}
          /\ SameExcept(store, pre, {MarkerKeyOf(LastKey)})

\* a GET handled between the put and the delete of a MOVE returned the copy
\* at the destination while the source still held its object
C16_Witness ==
    /\ inflight.phase = "put"
    /\ last.req.method = "GET"
    /\ last.req.path = "/a/c.txt"
    /\ last.status = 200
    /\ Has(store, "a/b.txt")
    /\ store["a/c.txt"] = CopyOf(store["a/b.txt"])

\* the worker stopped between the put and the delete of a MOVE: no MOVE is
\* in flight, and both keys hold the object
C16_Witness_Crash ==
    /\ inflight = Idle
    /\ last = Pending(Request("MOVE", "/a/b.txt", Null, Origin \o "/a/c.txt", Null, ""),
                      <<"get", "put">>)
    /\ Has(store, "a/b.txt")
    /\ Has(store, "a/c.txt")
    /\ store["a/c.txt"] = CopyOf(store["a/b.txt"])

\* the marker of the collection a/b stands, that of its parent a does not
C16_Witness_Mkcol ==
    /\ Has(store, MarkerKeyOf("a/b"))
    /\ ~Has(store, MarkerKeyOf("a"))

\* PROPFIND of a URL pathname with a Depth header, the store answering
PropfindWithDepth(bucket, path, depth) ==
    handlePropfind(bucket, Request("PROPFIND", path, depth, Null, Null, ""), NoFault)

\* the keys of the objects below a collection key, markers left out
Descendants(bucket, key) ==
    {k \in DOMAIN bucket :
        /\ StartsWith(k, ChildPrefix(key))
        /\ k # key
        /\ LastSegment(k) # MarkerName}

\* those that lie deeper than the direct children of the key
NestedDescendants(bucket, key) ==
    {k \in Descendants(bucket, key) :
        SlashPositions(Drop(k, Len(ChildPrefix(key)))) # {}}

\* the name of the direct child of the key under which k lies
ChildSegment(key, k) ==
    LET rest == Drop(k, Len(ChildPrefix(key)))
    IN  IF SlashPositions(rest) = {} THEN rest
        ELSE SubSeq(rest, 1, SetMin(SlashPositions(rest)) - 1)

\* C17: PROPFIND honours Depth: with Depth: 1 the response has entries for
\* direct children of the key only; with Depth: infinity, or no Depth
\* header, it has an entry for every descendant; so the two responses
\* differ for a collection with an object two levels below it.
C17_DepthHonoured ==
    (last.req.method = "PROPFIND" /\ last.status = 207) =>
        /\ (last.req.depth = "1") =>
              \A e \in last.entries :
                  \E k \in DOMAIN store :
                      /\ StartsWith(k, ChildPrefix(LastKey))
                      /\ e.displayname = ChildSegment(LastKey, k)
        /\ (last.req.depth = Null) =>
              \A k \in Descendants(store, LastKey) :
                  \E e \in last.entries :
                      /\ e.displayname = LastSegment(k)
                      /\ e.getcontentlength = store[k].size
                      /\ e.resourcetype # "collection"
        /\ (last.req.depth = "1" /\ NestedDescendants(store, LastKey) # {}) =>
              last.entries # PropfindWithDepth(store, last.req.path, "infinity").entries

\* what the code does for C17: every Depth other than 0 gets the response
\* of Depth: 1
C17_SameForEveryDepth ==
    (last.req.method = "PROPFIND" /\ last.req.depth # "0" /\ last.error = Null) =>
        \A d \in {Null, "1", "infinity"} :
            /\ PropfindWithDepth(store, last.req.path, d).status = last.status
            /\ PropfindWithDepth(store, last.req.path, d).entries = last.entries

\* the Depth: 1 part of C17 alone
C17_Depth1DirectChildren ==
    (last.req.method = "PROPFIND" /\ last.status = 207 /\ last.req.depth = "1") =>
        \A e \in last.entries :
            \E k \in DOMAIN store :
                /\ StartsWith(k, ChildPrefix(LastKey))
                /\ e.displayname = ChildSegment(LastKey, k)

\* the collection keys above a key
Ancestors(key) == {SubSeq(key, 1, i - 1) : i \in SlashPositions(key)}

\* C18: DELETE, MKCOL and PUT change only the key they address.  DELETE of
\* k removes at most the object at k and leaves the marker of k and the
\* objects under k/ as they were, so a collection k is still one; MKCOL of
\* k writes only the marker of k, and no marker of an ancestor of k; PUT
\* of k writes only k.  No other key of the store changes.
C18_SingleKeyFrame ==
    /\ (last.req.method = "DELETE") =>
          /\ SameExcept(store, pre, {LastKey})
          /\ ~Has(store, LastKey) \/ store = pre
          /\ \A k \in DOMAIN pre :
                StartsWith(k, ChildPrefix(LastKey)) => (Has(store, k) /\ store[k] = pre[k])
          /\ (last.status = 204 /\ ~NoCollectionAt(pre, LastKey)) =>
                /\ ~NoCollectionAt(store, LastKey)
                /\ PropfindDepth0(store, last.req.path).status = 207
    /\ (last.req.method = "MKCOL") =>
          /\ SameExcept(store, pre, {MarkerKeyOf(LastKey)})
          /\ Has(pre, MarkerKeyOf(LastKey)) => store = pre
          /\ \A anc \in Ancestors(LastKey) :
                Has(store, MarkerKeyOf(anc)) <=> Has(pre, MarkerKeyOf(anc))
    /\ (last.req.method = "PUT") =>
          SameExcept(store, pre, {LastKey})

\* a DELETE of a collection key that holds an object was answered 204:
\* the object is gone, the child under the key is still there
C18_Witness ==
    /\ last.req.method = "DELETE"
    /\ last.status = 204
    /\ Has(pre, LastKey)
    /\ ~Has(store, LastKey)
    /\ \E k \in DOMAIN store : StartsWith(k, ChildPrefix(LastKey))

\* a MKCOL created the marker of a/b, a having no marker
C18_Witness_Mkcol ==
    /\ last.req.method = "MKCOL"
    /\ LastKey = "a/b"
    /\ last.calls = <<"head", "put">>
    /\ Has(store, MarkerKeyOf("a/b"))
    /\ ~Has(store, MarkerKeyOf("a"))

\* a PUT replaced the object of a key, another key holding an object
C18_Witness_Put ==
    /\ last.req.method = "PUT"
    /\ last.status = 201
    /\ Has(pre, LastKey)
    /\ DOMAIN store # {LastKey}

====
